---- MODULE Spec2Model ----
(***************************************************************************)
(* GitUserResolver (package users) of lou-lan/jx: the resolution of a git  *)
(* user to a Jenkins X User custom resource, GitUserAsUser, with the       *)
(* helpers it calls (mergeGitUsers, GitUserToUser), and the update of a    *)
(* User from the commits of a pull request, UpdateUserFromPRAuthor.  Then  *)
(* the certificate helpers of package pki.  The clients and the git        *)
(* provider are collaborators: every call to them is a step of its own,    *)
(* whose answer is an input.                                               *)
(***************************************************************************)
EXTENDS Naturals, Sequences, FiniteSets, TLC

VARIABLES
    store,        \* the User resources of the namespace, in List order
    pc,           \* position of the caller inside GitUserAsUser
    calls,        \* number of GitUserAsUser calls started so far
    user,         \* the argument of the running call (a GitUser or Nil)
    users,        \* users.Items of the last successful List
    found,        \* the User about to be passed to Update or Create
    gitUser,      \* what GitProvider.UserInfo returned (a GitUser or Nil)
    lookup,       \* what happened inside the provider: found, notfound, transport
    ret,          \* the pair (User, error) GitUserAsUser returned
    ops,          \* the store operations the running call has issued, in order
    failed,       \* the store operation of the running call that failed, or "none"
    searched,     \* the cascade stages whose search the running call completed
    storeBefore,  \* the store when the running call started
    merge1,       \* first argument of the last mergeGitUsers call
    merge2,       \* second argument of the last mergeGitUsers call
    merged,       \* what the last mergeGitUsers call returned
    author,       \* the User passed to UpdateUserFromPRAuthor (or Nil)
    pullRequest,  \* the pull request passed to it (or Nil)
    commits,      \* the commits passed to it, in list order
    authorPc,     \* position of the caller inside UpdateUserFromPRAuthor
    authorRet,    \* the pair (User, error) UpdateUserFromPRAuthor returned
    authorBefore, \* the author argument as it was when the call started
    authorOps,    \* the Users passed to Update by the running call, in order
    other,        \* the locals of a second GitUserAsUser call, not scheduled now
    watchPc,      \* position of the goroutine of WatchCertificatesIssuedReady
    ctxDone,      \* ctx.Done() is closed: the caller has cancelled
    events,       \* the events waiting in watcher.ResultChan(), oldest first
    chanClosed,   \* watcher.ResultChan() has been closed
    stopped,      \* watcher.Stop() has been called
    result,       \* the Certificate the goroutine is sending (or Nil)
    received,     \* the Certificates the caller has received, in order
    consumed,     \* the events the goroutine has taken from the watcher
    receiving,    \* the caller still receives from the results channel
    waitPc,       \* position of the caller inside WaitCertificateIssuedReady
    timeout,      \* the timeout it was called with, in seconds
    elapsed,      \* the seconds since wait.PollImmediate was called
    observed,     \* what each run of the condition function saw, and when
    waitRet,      \* the error WaitCertificateIssuedReady returned
    secrets,      \* the names of the secrets of the namespace
    listed,       \* secrets.Items of the List of CleanCertSecrets, in order
    position,     \* the position in secrets.Items the loop has reached
    cleanPc,      \* position of the caller inside CleanCertSecrets
    cleanRet,     \* the error CleanCertSecrets returned
    cleanFailed,  \* the call of CleanCertSecrets that failed, or "none"
    secretsBefore \* the names of the secrets when CleanCertSecrets was called

mergeVars == <<merge1, merge2, merged>>

authorVars == <<author, pullRequest, commits, authorPc, authorRet,
                authorBefore, authorOps>>

\* the locals and the history of GitUserAsUser and mergeGitUsers
resolverVars == <<pc, calls, user, users, found, gitUser, lookup, ret, ops,
                  failed, searched, storeBefore, mergeVars>>

\* the variables that GitUserAsUser and mergeGitUsers do not touch
watchVars == <<watchPc, ctxDone, events, chanClosed, stopped, result,
               received, consumed, receiving>>

waitVars == <<waitPc, timeout, elapsed, observed, waitRet>>

cleanVars == <<secrets, listed, position, cleanPc, cleanRet, cleanFailed,
               secretsBefore>>

restVars == <<authorVars, other, watchVars, waitVars, cleanVars>>

\* the variables outside GitUserAsUser that UpdateUserFromPRAuthor does not
\* touch
besideAuthor == <<other, watchVars, waitVars, cleanVars>>

\* the variables outside GitUserAsUser that a second call of it does not touch
besideRace == <<authorVars, watchVars, waitVars, cleanVars>>

\* the variables of package users, which package pki does not touch
usersVars == <<store, resolverVars, authorVars, other>>

\* the variables that WatchCertificatesIssuedReady does not touch
besideWatch == <<usersVars, waitVars, cleanVars>>

\* the variables that WaitCertificateIssuedReady does not touch
besideWait == <<usersVars, watchVars, cleanVars>>

\* the variables that CleanCertSecrets does not touch
besideClean == <<usersVars, watchVars, waitVars>>

vars == <<store, pc, calls, user, users, found, gitUser, lookup, ret, ops,
          failed, searched, storeBefore, mergeVars, restVars>>

----------------------------------------------------------------------------
(* Bounds *)

MaxCalls == 2

MaxStored == 2

MaxCommits == 2

MaxRaceStored == 1

MaxEvents == 3

MaxTimeout == 4

MaxSecrets == 3

----------------------------------------------------------------------------
(* Values *)

\* a nil pointer (*gits.GitUser or *jenkinsv1.User)
Nil == [nil |-> TRUE]

\* r.GitProvider.Kind() of the resolver under test
Kind == "github"

\* GitProviderKey: "jenkins.io/git-%s-userid" formatted with the kind
GitProviderKey == "jenkins.io/git-" \o Kind \o "-userid"

\* the key of another provider, held by records linked to it
OtherProviderKey == "jenkins.io/git-gitlab-userid"

\* metav1.ObjectMeta.Labels == nil
NoLabels == [k \in {} |-> ""]

\* gits.GitUser
GitUser(login, name, email, url, avatar) ==
    [AvatarURL |-> avatar, URL |-> url, Name |-> name, Login |-> login,
     Email |-> email]

\* jenkinsv1.AccountReference
AccountReference(provider, id) == [Provider |-> provider, ID |-> id]

\* jenkinsv1.User: ObjectMeta.Name, ObjectMeta.Labels and Spec (UserDetails)
User(name, labels, login, dname, email, url, avatar, accounts) ==
    [Name |-> name, Labels |-> labels,
     Spec |-> [Login |-> login, Name |-> dname, Email |-> email, URL |-> url,
               AvatarURL |-> avatar, Accounts |-> accounts]]

\* the zero User a generated clientset hands back next to an error
ZeroUser == User(0, NoLabels, "", "", "", "", "", <<>>)

\* found.Labels[key] = value, making the map when it is nil
SetLabel(u, key, value) ==
    [u EXCEPT !.Labels = [k \in DOMAIN u.Labels \cup {key} |->
                              IF k = key THEN value ELSE u.Labels[k]]]

\* what a label selector "key=value" matches
HasLabel(u, key, value) == key \in DOMAIN u.Labels /\ u.Labels[key] = value

----------------------------------------------------------------------------
(* Pure helpers of the resolver *)

\* mergeGitUsers with the precedence reversed: user2's field where non-empty
mergeGitUsersSecondWins(user1, user2) ==
    IF user1 = Nil THEN user2
    ELSE IF user2 = Nil THEN user1
    ELSE [AvatarURL |-> IF user2.AvatarURL # "" THEN user2.AvatarURL
                        ELSE user1.AvatarURL,
          URL       |-> IF user2.URL # "" THEN user2.URL ELSE user1.URL,
          Name      |-> IF user2.Name # "" THEN user2.Name ELSE user1.Name,
          Login     |-> IF user2.Login # "" THEN user2.Login ELSE user1.Login,
          Email     |-> IF user2.Email # "" THEN user2.Email ELSE user1.Email]

\* mergeGitUsers(user1, user2): user1's field where it is non-empty
mergeGitUsers(user1, user2) ==
    IF user1 = Nil THEN user2
    ELSE IF user2 = Nil THEN user1
    ELSE [AvatarURL |-> IF user1.AvatarURL # "" THEN user1.AvatarURL
                        ELSE user2.AvatarURL,
          URL       |-> IF user1.URL # "" THEN user1.URL ELSE user2.URL,
          Name      |-> IF user1.Name # "" THEN user1.Name ELSE user2.Name,
          Login     |-> IF user1.Login # "" THEN user1.Login ELSE user2.Login,
          Email     |-> IF user1.Email # "" THEN user1.Email ELSE user2.Email]

\* CreateUser(ns, login, name, email): a fresh record from the three values
\* it is given; its store-internal name is assigned when it is stored
CreateUser(login, name, email) ==
    User(0, NoLabels, login, name, email, "", "", <<>>)

\* AddAccountReference(user, gitProviderKey, id): attach one reference
AddAccountReference(u, gitProviderKey, id) ==
    [u EXCEPT !.Spec.Accounts = Append(@, AccountReference(gitProviderKey, id))]

\* GitUserToUser with the name and the email in each other's place
GitUserToUserSwapped(g) ==
    AddAccountReference(CreateUser(g.Login, g.Email, g.Name),
                        GitProviderKey, g.Login)

\* GitUserToUser: only Login, Name and Email of the GitUser are passed on
GitUserToUser(g) ==
    AddAccountReference(CreateUser(g.Login, g.Name, g.Email),
                        GitProviderKey, g.Login)

\* a selector formatted from the name of the git user, not from its login
labelSelectorOfName(providerKey, u) == [key |-> providerKey, value |-> u.Name]

\* labelSelector: "%s=%s" formatted with the provider key and user.Login
labelSelector(providerKey, u) == [key |-> providerKey, value |-> u.Login]

\* the inner loop of stage 2: one append per matching account of u
AccountMatches(u, providerKey, login) ==
    Cardinality({i \in DOMAIN u.Spec.Accounts :
                    /\ u.Spec.Accounts[i].Provider = providerKey
                    /\ u.Spec.Accounts[i].ID = login})

\* the outer loop of stage 2: possibles, in the order of users.Items
RECURSIVE PossiblesByAccount(_, _, _)
PossiblesByAccount(items, providerKey, login) ==
    IF items = <<>> THEN <<>>
    ELSE [i \in 1..AccountMatches(Head(items), providerKey, login) |->
              Head(items)]
         \o PossiblesByAccount(Tail(items), providerKey, login)

\* the loop of stage 3 stopping at the first user whose email matches
PossiblesByEmailFirst(items, g) ==
    IF g = Nil THEN <<>>
    ELSE LET all == SelectSeq(items, LAMBDA u : u.Spec.Email = g.Email)
         IN IF all = <<>> THEN <<>> ELSE <<Head(all)>>

\* the loop of stage 3: the users whose Spec.Email equals gitUser.Email
PossiblesByEmail(items, g) ==
    IF g = Nil THEN <<>>
    ELSE SelectSeq(items, LAMBDA u : u.Spec.Email = g.Email)

\* stage 2, one match: found.Labels[providerKey] = user.Login
HealedUser(u, providerKey, login) == SetLabel(u, providerKey, login)

\* stage 3, one match: append the account of gitUser.Login, then set the
\* label to user.Login
AssociatedUser(u, providerKey, g, login) ==
    SetLabel(AddAccountReference(u, providerKey, g.Login), providerKey, login)

----------------------------------------------------------------------------
(* The Users client of the namespace *)

\* Users(ns).List with a LabelSelector: the records carrying that label
ListByLabel(s, selector) ==
    SelectSeq(s, LAMBDA u : HasLabel(u, selector.key, selector.value))

\* Users(ns).Update: the record of that name is replaced
UpdateUser(s, u) == [i \in DOMAIN s |-> IF s[i].Name = u.Name THEN u ELSE s[i]]

\* Users(ns).Create: the record is stored under a fresh name
StoredUser(s, u) == [u EXCEPT !.Name = Len(s) + 1]

\* the errors a store call can fail with
StoreErrors == {"store unavailable", "store conflict"}

\* what a failed Update or Create hands back next to the error: a generated
\* clientset returns a zero object, the fake one a nil pointer
FailedObjects == {Nil, ZeroUser}

NoError == "nil"

NoFailure == [op |-> "none", err |-> NoError]

Return(u, e) == [user |-> u, err |-> e]

\* the call has not returned
NotReturned == [user |-> Nil, err |-> "not returned"]

\* mergeGitUsers has not been called
NotMerged == [merged |-> FALSE]

----------------------------------------------------------------------------
(* The git provider *)

\* what can happen inside GitProvider.UserInfo(login): the provider knows the
\* user, does not know it, or cannot be reached
Found(g) == [kind |-> "found", user |-> g]

NotFound == [kind |-> "notfound", user |-> Nil]

TransportError == [kind |-> "transport", user |-> Nil]

NotAsked == [kind |-> "none", user |-> Nil]

\* GitProvider.UserInfo returns a *GitUser and no error: nil stands for
\* not-found and for a failed lookup alike ("UserInfo swallows the error")
UserInfo(a) == IF a.kind = "found" THEN a.user ELSE Nil

----------------------------------------------------------------------------
(* Inputs *)

Logins == {"", "a", "b"}

StoredEmails == {"", "e1"}

\* the records an operator or an earlier run may have left in the namespace:
\* at most one account per record, the label present or not
InitUsers ==
    {User(0, labels, "", "", email, "", "", accounts) :
        labels \in {NoLabels, SetLabel(ZeroUser, GitProviderKey, "a").Labels},
        email \in StoredEmails,
        accounts \in {<<>>, <<AccountReference(GitProviderKey, "a")>>}}
    \cup {User(0, NoLabels, "", "", "", "", "",
                <<AccountReference(OtherProviderKey, "a")>>)}

\* the stores of n records, named 1..n
StoresOf(n) ==
    {[i \in 1..n |-> [f[i] EXCEPT !.Name = i]] : f \in [1..n -> InitUsers]}

\* the stores of at most n records
StoresUpTo(n) == UNION {StoresOf(k) : k \in 0..n}

\* arguments and provider answers that vary in login and email only
LoginUsers == {Nil} \cup {GitUser(l, "", "", "", "") : l \in Logins}

LoginAnswers ==
    {NotFound, TransportError}
    \cup {Found(GitUser(l, "", e, "", "")) : l \in Logins, e \in StoredEmails}

\* arguments and provider answers that vary in all five fields; the caller's
\* values differ from the provider's, so that a merged field shows its origin
FieldUsers ==
    {Nil} \cup {GitUser(l, n, e, u, v) : l \in {"", "a"}, n \in {"", "cn"},
                e \in {"", "ce"}, u \in {"", "cu"}, v \in {"", "cv"}}

FieldAnswers ==
    {NotFound, TransportError}
    \cup {Found(GitUser(l, n, e, u, v)) : l \in {"", "b"}, n \in {"", "rn"},
              e \in {"", "e1"}, u \in {"", "ru"}, v \in {"", "rv"}}

----------------------------------------------------------------------------
(* GitUserAsUser, one action per call it makes *)

\* no call of UpdateUserFromPRAuthor is running
AuthorIdle ==
    /\ authorPc = "idle"
    /\ author = Nil /\ pullRequest = Nil /\ commits = <<>>
    /\ authorRet = NotReturned /\ authorBefore = Nil /\ authorOps = <<>>

\* WatchCertificatesIssuedReady has not been called
WatchIdle ==
    /\ watchPc = "none"
    /\ ctxDone = FALSE /\ events = <<>> /\ chanClosed = FALSE
    /\ stopped = FALSE /\ result = Nil /\ received = <<>>
    /\ consumed = <<>> /\ receiving = TRUE

\* WaitCertificateIssuedReady has not been called
WaitIdle ==
    /\ waitPc = "none"
    /\ timeout = 0 /\ elapsed = 0 /\ observed = <<>> /\ waitRet = NoError

\* CleanCertSecrets has not been called
CleanIdle ==
    /\ cleanPc = "none"
    /\ listed = <<>> /\ position = 0 /\ cleanRet = NoError
    /\ cleanFailed = "none" /\ secretsBefore = {}

\* the locals of a GitUserAsUser call that has not started
IdleLocals ==
    [pc |-> "idle", user |-> Nil, users |-> <<>>, found |-> Nil,
     gitUser |-> Nil, lookup |-> NotAsked, ret |-> NotReturned, ops |-> <<>>,
     failed |-> NoFailure, searched |-> {}, storeBefore |-> <<>>,
     merge1 |-> Nil, merge2 |-> Nil, merged |-> NotMerged]

\* nothing but GitUserAsUser and mergeGitUsers is in use
OthersIdle ==
    /\ AuthorIdle
    /\ other = IdleLocals
    /\ WatchIdle
    /\ WaitIdle
    /\ CleanIdle

\* the same, in a namespace without secrets
RestIdle ==
    /\ OthersIdle
    /\ secrets = {}

\* no call is running: the locals of the last one are gone
Idle ==
    /\ pc = "idle"
    /\ user = Nil /\ users = <<>> /\ found = Nil /\ gitUser = Nil
    /\ lookup = NotAsked /\ ret = NotReturned /\ ops = <<>>
    /\ failed = NoFailure /\ searched = {} /\ storeBefore = <<>>
    /\ merge1 = Nil /\ merge2 = Nil /\ merged = NotMerged

\* entry: the nil check, then stage 1 when there is a login
GitUserAsUser(arguments, max) ==
    /\ pc = "idle"
    /\ calls < max
    /\ \E u \in arguments :
        /\ user' = u
        /\ IF u = Nil
           THEN /\ ret' = Return(Nil, "user cannot be nil")
                /\ pc' = "done"
           ELSE /\ ret' = NotReturned
                /\ pc' = IF u.Login # "" THEN "labelList" ELSE "fullList"
    /\ calls' = calls + 1
    /\ storeBefore' = store
    /\ UNCHANGED restVars
    /\ UNCHANGED <<store, users, found, gitUser, lookup, ops, failed, searched,
                   mergeVars>>

\* stage 1: List by label, and what its length decides
ListLabelled ==
    /\ pc = "labelList"
    /\ ops' = Append(ops, "List")
    /\ \/ \E e \in StoreErrors :
            /\ failed' = [op |-> "labelList", err |-> e]
            /\ ret' = Return(Nil, e)
            /\ pc' = "done"
            /\ UNCHANGED <<users, searched>>
       \/ LET items == ListByLabel(store, labelSelector(GitProviderKey, user)) IN
            /\ users' = items
            /\ searched' = searched \cup {1}
            /\ failed' = failed
            /\ IF Len(items) > 1
               THEN /\ ret' = Return(Nil, "more than one user found with label")
                    /\ pc' = "done"
               ELSE IF Len(items) = 1
               THEN /\ ret' = Return(items[1], NoError)
                    /\ pc' = "done"
               ELSE /\ ret' = ret
                    /\ pc' = "fullList"
    /\ UNCHANGED restVars
    /\ UNCHANGED <<store, calls, user, found, gitUser, lookup, storeBefore,
                   mergeVars>>

\* stage 2: List of the namespace, the scan of the accounts, and what the
\* length of possibles decides
ListAll ==
    /\ pc = "fullList"
    /\ ops' = Append(ops, "List")
    /\ \/ \E e \in StoreErrors :
            /\ failed' = [op |-> "fullList", err |-> e]
            /\ ret' = Return(Nil, e)
            /\ pc' = "done"
            /\ UNCHANGED <<users, searched, found>>
       \/ LET possibles == IF user.Login # ""
                           THEN PossiblesByAccount(store, GitProviderKey,
                                                   user.Login)
                           ELSE <<>>
          IN
            /\ users' = store
            /\ searched' = IF user.Login # "" THEN searched \cup {2}
                           ELSE searched
            /\ failed' = failed
            /\ IF Len(possibles) > 1
               THEN /\ ret' = Return(Nil, "more than one user found with login")
                    /\ pc' = "done"
                    /\ found' = found
               ELSE IF Len(possibles) = 1
               THEN /\ found' = HealedUser(possibles[1], GitProviderKey,
                                           user.Login)
                    /\ ret' = ret
                    /\ pc' = "updateLabel"
               ELSE /\ ret' = ret
                    /\ pc' = "userInfo"
                    /\ found' = found
    /\ UNCHANGED restVars
    /\ UNCHANGED <<store, calls, user, gitUser, lookup, storeBefore, mergeVars>>

\* stage 2 without its return: after the Update the call goes on to stage 3
UpdateLabelNoReturn ==
    /\ pc = "updateLabel"
    /\ ops' = Append(ops, "Update")
    /\ \/ \E e \in StoreErrors :
            /\ failed' = [op |-> "updateLabel", err |-> e]
            /\ ret' = Return(Nil, e)
            /\ store' = store
            /\ pc' = "done"
       \/ /\ store' = UpdateUser(store, found)
          /\ ret' = ret
          /\ failed' = failed
          /\ pc' = "userInfo"
    /\ UNCHANGED restVars
    /\ UNCHANGED <<calls, user, users, found, gitUser, lookup, searched,
                   storeBefore, mergeVars>>

\* stage 2, one match: Update, the error check, then the return
UpdateLabel ==
    /\ pc = "updateLabel"
    /\ ops' = Append(ops, "Update")
    /\ \/ \E e \in StoreErrors :
            /\ failed' = [op |-> "updateLabel", err |-> e]
            /\ ret' = Return(Nil, e)
            /\ store' = store
       \/ /\ store' = UpdateUser(store, found)
          /\ ret' = Return(found, NoError)
          /\ failed' = failed
    /\ pc' = "done"
    /\ UNCHANGED restVars
    /\ UNCHANGED <<calls, user, users, found, gitUser, lookup, searched,
                   storeBefore, mergeVars>>

\* stage 3: the remote call, the scan of the emails, and what the length of
\* possibles decides
AskProvider(answers) ==
    /\ pc = "userInfo"
    /\ \E a \in answers :
        LET g == UserInfo(a)
            possibles == PossiblesByEmail(users, g)
        IN
          /\ lookup' = a
          /\ gitUser' = g
          /\ searched' = IF g # Nil THEN searched \cup {3} ELSE searched
          /\ IF Len(possibles) > 1
             THEN /\ ret' = Return(Nil, "more than one user found with email")
                  /\ pc' = "done"
                  /\ found' = found
             ELSE IF Len(possibles) = 1
             THEN /\ found' = AssociatedUser(possibles[1], GitProviderKey, g,
                                             user.Login)
                  /\ ret' = ret
                  /\ pc' = "updateAccount"
             ELSE /\ found' = found
                  /\ ret' = ret
                  /\ pc' = "create"
    /\ UNCHANGED restVars
    /\ UNCHANGED <<store, calls, user, users, ops, failed, storeBefore,
                   mergeVars>>

\* stage 3, one match: Update, the two log lines that read found.Name, and
\* only then the error check
UpdateAccount ==
    /\ pc = "updateAccount"
    /\ ops' = Append(ops, "Update")
    /\ \/ \E e \in StoreErrors, returned \in FailedObjects :
            /\ failed' = [op |-> "updateAccount", err |-> e]
            /\ store' = store
            /\ IF returned = Nil
               THEN /\ pc' = "panic"
                    /\ ret' = ret
               ELSE /\ pc' = "done"
                    /\ ret' = Return(Nil, e)
       \/ /\ store' = UpdateUser(store, found)
          /\ ret' = Return(found, NoError)
          /\ failed' = failed
          /\ pc' = "done"
    /\ UNCHANGED restVars
    /\ UNCHANGED <<calls, user, users, found, gitUser, lookup, searched,
                   storeBefore, mergeVars>>

\* stage 4 with a look at the store just before Create: a record that holds
\* the account reference by now is returned and nothing is created
CreateNewUnlessLinked ==
    /\ pc = "create"
    /\ merge1' = gitUser
    /\ merge2' = user
    /\ merged' = mergeGitUsers(gitUser, user)
    /\ found' = GitUserToUser(merged')
    /\ LET linked == PossiblesByAccount(store, GitProviderKey, merged'.Login)
       IN  IF Len(linked) > 0
           THEN /\ ops' = Append(ops, "List")
                /\ store' = store
                /\ ret' = Return(linked[1], NoError)
                /\ failed' = failed
           ELSE /\ ops' = Append(ops, "Create")
                /\ store' = Append(store, StoredUser(store, found'))
                /\ ret' = Return(StoredUser(store, found'), NoError)
                /\ failed' = failed
    /\ pc' = "done"
    /\ UNCHANGED restVars
    /\ UNCHANGED <<calls, user, users, gitUser, lookup, searched, storeBefore>>

\* stage 4: the merge of the two git users, the conversion to a User, and
\* Create, whose two results are returned as they are
CreateNew ==
    /\ pc = "create"
    /\ merge1' = gitUser
    /\ merge2' = user
    /\ merged' = mergeGitUsers(gitUser, user)
    /\ found' = GitUserToUser(merged')
    /\ ops' = Append(ops, "Create")
    /\ \/ \E e \in StoreErrors, returned \in FailedObjects :
            /\ failed' = [op |-> "create", err |-> e]
            /\ store' = store
            /\ ret' = Return(returned, e)
       \/ /\ store' = Append(store, StoredUser(store, found'))
          /\ ret' = Return(StoredUser(store, found'), NoError)
          /\ failed' = failed
    /\ pc' = "done"
    /\ UNCHANGED restVars
    /\ UNCHANGED <<calls, user, users, gitUser, lookup, searched, storeBefore>>

\* the caller takes the result; the locals of the call are gone
Finish ==
    /\ pc = "done"
    /\ pc' = "idle"
    /\ user' = Nil /\ users' = <<>> /\ found' = Nil /\ gitUser' = Nil
    /\ lookup' = NotAsked /\ ret' = NotReturned /\ ops' = <<>>
    /\ failed' = NoFailure /\ searched' = {} /\ storeBefore' = <<>>
    /\ merge1' = Nil /\ merge2' = Nil /\ merged' = NotMerged
    /\ UNCHANGED restVars
    /\ UNCHANGED <<store, calls>>

----------------------------------------------------------------------------
(* Specifications *)

\* calls that vary in login and email, against the stores of MaxStored records
Init ==
    /\ Idle
    /\ calls = 0
    /\ store \in StoresUpTo(MaxStored)
    /\ RestIdle

Resolve == GitUserAsUser(LoginUsers, MaxCalls)

Lookup == AskProvider(LoginAnswers)

Next ==
    \/ Resolve
    \/ ListLabelled
    \/ ListAll
    \/ UpdateLabel
    \/ Lookup
    \/ UpdateAccount
    \/ CreateNew
    \/ Finish

Spec == Init /\ [][Next]_vars

\* one call that varies in all five fields of the argument and of the
\* provider's answer
ResolveFields == GitUserAsUser(FieldUsers, 1)

LookupFields == AskProvider(FieldAnswers)

NextFields ==
    \/ ResolveFields
    \/ ListLabelled
    \/ ListAll
    \/ UpdateLabel
    \/ LookupFields
    \/ UpdateAccount
    \/ CreateNew
    \/ Finish

SpecFields == Init /\ [][NextFields]_vars

\* mergeGitUsers alone, on every pair of arguments, nil included
MergeArguments == FieldUsers \cup {a.user : a \in FieldAnswers}

InitMerge ==
    /\ Idle
    /\ calls = 0
    /\ store = <<>>
    /\ RestIdle

MergeCall ==
    /\ pc = "idle"
    /\ merged = NotMerged
    /\ \E u1 \in MergeArguments, u2 \in MergeArguments :
        /\ merge1' = u1
        /\ merge2' = u2
        /\ merged' = mergeGitUsers(u1, u2)
    /\ UNCHANGED restVars
    /\ UNCHANGED <<store, pc, calls, user, users, found, gitUser, lookup, ret,
                   ops, failed, searched, storeBefore>>

\* the caller takes the merged git user
MergeDone ==
    /\ pc = "idle"
    /\ merged # NotMerged
    /\ merge1' = Nil /\ merge2' = Nil /\ merged' = NotMerged
    /\ UNCHANGED restVars
    /\ UNCHANGED <<store, pc, calls, user, users, found, gitUser, lookup, ret,
                   ops, failed, searched, storeBefore>>

NextMerge ==
    \/ MergeCall
    \/ MergeDone

SpecMerge == InitMerge /\ [][NextMerge]_vars

----------------------------------------------------------------------------
(* Properties of GitUserAsUser *)

\* the mutating store operations among o
Writes(o) == {i \in DOMAIN o : o[i] \in {"Update", "Create"}}

\* the records of s that carry the label GitProviderKey=login
Labelled(s, login) ==
    {i \in DOMAIN s : /\ GitProviderKey \in DOMAIN s[i].Labels
                      /\ s[i].Labels[GitProviderKey] = login}

\* the records of s that hold the account reference {GitProviderKey, login}
Linked(s, login) ==
    {i \in DOMAIN s :
        \E j \in DOMAIN s[i].Spec.Accounts :
            s[i].Spec.Accounts[j] = [Provider |-> GitProviderKey, ID |-> login]}

\* the records of s whose email is email
WithEmail(s, email) == {i \in DOMAIN s : s[i].Spec.Email = email}

\* the running call has a non-nil argument and has returned
Returned == pc = "done" /\ user # Nil

\* C1: a call of GitUserAsUser issues at most one Update or Create in total,
\* whatever the store, the argument, the provider's answer and the outcome;
\* List calls are not counted.
C1_AtMostOneWrite == Cardinality(Writes(ops)) <= 1

\* a call that went through stage 3 returned after its one Update, which
\* changed the store
C1_Witness ==
    /\ pc = "done"
    /\ ops = <<"List", "List", "Update">>
    /\ lookup.kind = "found"
    /\ ret.err = NoError
    /\ store # storeBefore

\* a cascade stage of the running call found more than one candidate record
Ambiguous ==
    \/ 1 \in searched /\ Cardinality(Labelled(storeBefore, user.Login)) > 1
    \/ 2 \in searched /\ Cardinality(Linked(storeBefore, user.Login)) > 1
    \/ 3 \in searched /\ Cardinality(WithEmail(storeBefore, gitUser.Email)) > 1

\* C2: when a stage finds more than one candidate (by label, by account
\* reference or by the remote email), GitUserAsUser returns an error and no
\* record, and has issued no Update and no Create: the store is as it was.
C2_AmbiguityIsAnError ==
    (Returned /\ Ambiguous) =>
        /\ ret.user = Nil
        /\ ret.err # NoError
        /\ Writes(ops) = {}
        /\ store = storeBefore

\* two records match the remote email, after the two earlier stages found
\* nothing
C2_Witness ==
    /\ Returned
    /\ searched = {1, 2, 3}
    /\ Cardinality(WithEmail(storeBefore, gitUser.Email)) = 2
    /\ gitUser.Email # ""
    /\ ret.err = "more than one user found with email"

\* C3: a remote git user with an empty email matches no record, not even one
\* whose email is empty too: nothing is updated through the email, and the
\* call goes on to create a record.
C3_EmptyEmailMatchesNothing ==
    (lookup.kind = "found" /\ gitUser.Email = "") =>
        /\ pc \in {"create", "done"}
        /\ \A i \in DOMAIN ops : ops[i] # "Update"
        /\ pc = "done" => ops[Len(ops)] = "Create"

\* the record of s at index i with the label GitProviderKey=login added
WithLabel(s, i, login) ==
    [s[i] EXCEPT !.Labels = [k \in DOMAIN s[i].Labels \cup {GitProviderKey} |->
                                IF k = GitProviderKey THEN login
                                ELSE s[i].Labels[k]]]

\* the running call had a login and no store call of it failed
Served == Returned /\ user.Login # "" /\ failed = NoFailure

\* C4: when exactly one record holds the account reference {providerKey,
\* login} and no record carries the label providerKey=login, resolving that
\* login (non-empty, the store calls succeeding) returns that record, by
\* exactly one Update that only adds the label, with no Create and no call to
\* the provider.
C4_IndexSelfHealing ==
    (/\ Served
     /\ Cardinality(Linked(storeBefore, user.Login)) = 1
     /\ Labelled(storeBefore, user.Login) = {}) =>
        LET i == CHOOSE k \in Linked(storeBefore, user.Login) : TRUE IN
            /\ ret = Return(WithLabel(storeBefore, i, user.Login), NoError)
            /\ ops = <<"List", "List", "Update">>
            /\ store = [storeBefore EXCEPT
                            ![i] = WithLabel(storeBefore, i, user.Login)]
            /\ lookup = NotAsked

\* C5: when exactly one record carries the label providerKey=login, every
\* call resolving that (non-empty) login whose List succeeds returns that
\* record and issues its one List and nothing else, so the store after the
\* call is the store before it and the next call of a sequence finds the same.
C5_FastPathIdempotent ==
    (/\ Served
     /\ Cardinality(Labelled(storeBefore, user.Login)) = 1) =>
        LET i == CHOOSE k \in Labelled(storeBefore, user.Login) : TRUE IN
            /\ ret = Return(storeBefore[i], NoError)
            /\ ops = <<"List">>
            /\ store = storeBefore

\* the second call of a sequence takes the fast path on a store of two records
\* and returns the labelled one
C5_Witness ==
    /\ Served
    /\ calls = 2
    /\ Cardinality(Labelled(storeBefore, user.Login)) = 1
    /\ Len(storeBefore) = 2
    /\ storeBefore \in StoresOf(2)
    /\ ret.err = NoError
    /\ ret.user \in {storeBefore[1], storeBefore[2]}

\* C6: for a non-empty login that no label and no account reference of the
\* store matches, and a provider that reports not-found, the call (its store
\* calls succeeding) returns no error after exactly one Create and no Update;
\* the created record has the one account reference {providerKey, login} and
\* the fields of the argument.
C6_CreationFallback ==
    (/\ Served
     /\ Labelled(storeBefore, user.Login) = {}
     /\ Linked(storeBefore, user.Login) = {}
     /\ lookup = NotFound) =>
        /\ ret.err = NoError
        /\ ops = <<"List", "List", "Create">>
        /\ store = Append(storeBefore, ret.user)
        /\ ret.user.Spec.Accounts =
               <<[Provider |-> GitProviderKey, ID |-> user.Login]>>
        /\ ret.user.Spec.Login = user.Login
        /\ ret.user.Spec.Name = user.Name
        /\ ret.user.Spec.Email = user.Email
        /\ ret.user.Spec.URL = user.URL
        /\ ret.user.Spec.AvatarURL = user.AvatarURL

\* C6 as the code has it: the created record has the login, the name and the
\* email of the argument and the one account reference; the url and the
\* avatar url of the argument are not carried into the record.
C6_CreationKeepsLoginNameEmail ==
    (/\ Served
     /\ Labelled(storeBefore, user.Login) = {}
     /\ Linked(storeBefore, user.Login) = {}
     /\ lookup = NotFound) =>
        /\ ret.err = NoError
        /\ ops = <<"List", "List", "Create">>
        /\ store = Append(storeBefore, ret.user)
        /\ ret.user.Spec.Accounts =
               <<[Provider |-> GitProviderKey, ID |-> user.Login]>>
        /\ ret.user.Spec.Login = user.Login
        /\ ret.user.Spec.Name = user.Name
        /\ ret.user.Spec.Email = user.Email
        /\ ret.user.Spec.URL = ""
        /\ ret.user.Spec.AvatarURL = ""

\* a record was created for an argument with every field set, the provider
\* not knowing the login, next to a record linked to another provider
C6_Witness ==
    /\ Served
    /\ lookup = NotFound
    /\ user = GitUser("a", "cn", "ce", "cu", "cv")
    /\ Len(storeBefore) = 1
    /\ Len(store) = 2
    /\ store[2].Spec.Login = "a"
    /\ store[2].Spec.URL = ""

\* the field of the first git user where it is non-empty, else of the second
Preferred(first, second, field) ==
    IF first[field] # "" THEN first[field] ELSE second[field]

GitUserFields == {"AvatarURL", "URL", "Name", "Login", "Email"}

\* C7: merging two non-nil git users yields, field by field, the first one's
\* value where it is non-empty and the second one's otherwise; stage 4 merges
\* the remote git user (first) with the argument (second), so the login, name
\* and email of the created record are the remote values where non-empty and
\* the argument's otherwise.
C7_MergePrecedence ==
    /\ (merged # NotMerged /\ merge1 # Nil /\ merge2 # Nil) =>
           \A f \in GitUserFields : merged[f] = Preferred(merge1, merge2, f)
    /\ (pc = "done" /\ ops = <<"List", "List", "Create">>) =>
           /\ merge1 = gitUser
           /\ merge2 = user
    /\ (/\ pc = "done" /\ ops = <<"List", "List", "Create">>
        /\ failed = NoFailure /\ gitUser # Nil) =>
           LET created == store[Len(store)].Spec IN
               /\ Len(store) = Len(storeBefore) + 1
               /\ created.Login = Preferred(gitUser, user, "Login")
               /\ created.Name = Preferred(gitUser, user, "Name")
               /\ created.Email = Preferred(gitUser, user, "Email")

\* a record was created from a remote git user that has a login and an email
\* but no name, and an argument that has all three: both branches are taken
C7_Witness ==
    /\ pc = "done" /\ failed = NoFailure
    /\ ops = <<"List", "List", "Create">>
    /\ gitUser # Nil
    /\ gitUser.Login = "b" /\ gitUser.Name = "" /\ gitUser.Email = "e1"
    /\ user.Login = "a" /\ user.Name = "cn" /\ user.Email = "ce"
    /\ user.URL = "cu" /\ gitUser.URL = "ru"
    /\ store[Len(store)].Spec.Login = "b"
    /\ store[Len(store)].Spec.Name = "cn"
    /\ store[Len(store)].Spec.Email = "e1"
    /\ merged.URL = "ru"

\* C8: mergeGitUsers(nil, f) is f, mergeGitUsers(f, nil) is f, and
\* mergeGitUsers(nil, nil) is a non-nil git user whose fields are all empty.
C8_MergeOfNil ==
    merged # NotMerged =>
        /\ (merge1 = Nil /\ merge2 # Nil) => merged = merge2
        /\ (merge1 # Nil /\ merge2 = Nil) => merged = merge1
        /\ (merge1 = Nil /\ merge2 = Nil) =>
               merged = [AvatarURL |-> "", URL |-> "", Name |-> "",
                         Login |-> "", Email |-> ""]

\* C9: when a List, an Update or a Create of the call fails, the call returns
\* that error and no record, without a crash, and the failed operation is the
\* last store operation it issues.
C9_StoreFailurePropagates ==
    failed # NoFailure =>
        /\ pc = "done"
        /\ ret.err = failed.err
        /\ ret.user \in FailedObjects
        /\ ops[Len(ops)] = (CASE failed.op \in {"labelList", "fullList"} -> "List"
                              [] failed.op \in {"updateLabel", "updateAccount"}
                                     -> "Update"
                              [] OTHER -> "Create")

\* C10: when the provider lookup fails in transport, the call returns a
\* provider-lookup error and issues no Create.
C10_TransportFailureIsAnError ==
    lookup = TransportError =>
        /\ pc # "create"
        /\ \A i \in DOMAIN ops : ops[i] # "Create"
        /\ pc = "done" => ret.err = "provider lookup failed"

\* the positions of record u's account references for provider
AccountsFor(u, provider) ==
    {j \in DOMAIN u.Spec.Accounts : u.Spec.Accounts[j].Provider = provider}

\* C11: starting from a store in which every record holds at most one account
\* reference per provider, every record still holds at most one per provider
\* after any sequence of calls: stage 3 never appends {providerKey, login} to
\* a record that already holds a reference for providerKey.
C11_OneAccountPerProvider ==
    \A i \in DOMAIN store :
        \A provider \in {GitProviderKey, OtherProviderKey} :
            Cardinality(AccountsFor(store[i], provider)) <= 1

----------------------------------------------------------------------------
(* UpdateUserFromPRAuthor *)

\* the least element of a non-empty set of positions
FirstOf(S) == CHOOSE i \in S : \A j \in S : i <= j

\* GitUserLogin with the raw login in place of the account references
GitUserLoginRaw(u) == u.Spec.Login

\* GitUserLogin: the ID of the first account of the provider, "" when the
\* user has none
GitUserLogin(u) ==
    LET own == {j \in DOMAIN u.Spec.Accounts :
                    u.Spec.Accounts[j].Provider = GitProviderKey}
    IN  IF own = {} THEN "" ELSE u.Spec.Accounts[FirstOf(own)].ID

\* gitLogin: GitUserLogin, or the raw login when that is empty
AuthorLogin(u) ==
    IF GitUserLogin(u) = "" THEN u.Spec.Login ELSE GitUserLogin(u)

\* the loop over the commits taking the last commit that matches
MatchingCommitLast(cs, gitLogin) ==
    LET matching == {i \in DOMAIN cs : /\ cs[i].Author # Nil
                                      /\ gitLogin = cs[i].Author.Login}
    IN  IF matching = {} THEN 0
        ELSE CHOOSE i \in matching : \A j \in matching : j <= i

\* the loop over the commits: the position of the first commit with a
\* non-nil author of that login, where the loop breaks; 0 when it runs out
MatchingCommit(cs, gitLogin) ==
    LET matching == {i \in DOMAIN cs : /\ cs[i].Author # Nil
                                      /\ gitLogin = cs[i].Author.Login}
    IN  IF matching = {} THEN 0 ELSE FirstOf(matching)

\* a commit, of which only the author is read
GitCommit(commitAuthor) == [Author |-> commitAuthor]

\* a non-nil pull request, of which nothing is read
GitPullRequest == [Number |-> 1]

PullRequests == {Nil, GitPullRequest}

\* the authors of commits: none, or a git user with a login and an email
CommitAuthors ==
    {Nil} \cup {GitUser(login, "", email, "", "") :
                    login \in Logins, email \in {"e1", "e2"}}

RECURSIVE CommitLists(_)
\* the lists of at most n commits
CommitLists(n) ==
    IF n = 0 THEN {<<>>}
    ELSE CommitLists(n - 1) \cup
         {Append(cs, GitCommit(a)) :
             cs \in {l \in CommitLists(n - 1) : Len(l) = n - 1},
             a \in CommitAuthors}

\* the User resources UpdateUserFromPRAuthor is tried on: with and without
\* an account of the provider, with an account whose id is empty, with an
\* account of another provider first, and with two accounts of the provider
AuthorUsers ==
    {User(1, NoLabels, login, "", email, "", "", accounts) :
        login \in Logins,
        email \in {"", "e0"},
        accounts \in {<<>>,
                      <<AccountReference(GitProviderKey, "a")>>,
                      <<AccountReference(GitProviderKey, "")>>,
                      <<AccountReference(OtherProviderKey, "b"),
                        AccountReference(GitProviderKey, "a")>>,
                      <<AccountReference(GitProviderKey, "a"),
                        AccountReference(GitProviderKey, "b")>>}}

\* the call up to the Update: the nil checks, the login, the loop
UpdateUserFromPRAuthor ==
    /\ authorPc = "idle"
    /\ \E a \in {Nil} \cup {store[i] : i \in DOMAIN store},
          p \in PullRequests,
          cs \in CommitLists(MaxCommits) :
        /\ authorBefore' = a
        /\ pullRequest' = p
        /\ commits' = cs
        /\ LET updated == IF p # Nil /\ a # Nil
                          THEN MatchingCommit(cs, AuthorLogin(a))
                          ELSE 0
           IN  IF updated # 0
               THEN /\ author' = [a EXCEPT !.Spec.Email =
                                                cs[updated].Author.Email]
                    /\ authorPc' = "update"
                    /\ authorRet' = NotReturned
               ELSE /\ author' = a
                    /\ authorPc' = "done"
                    /\ authorRet' = Return(a, NoError)
    /\ authorOps' = <<>>
    /\ UNCHANGED <<store, resolverVars, besideAuthor>>

\* Users(ns).Update(author), whose result is the result of the call
AuthorUpdate ==
    /\ authorPc = "update"
    /\ authorOps' = Append(authorOps, author)
    /\ \/ /\ store' = UpdateUser(store, author)
          /\ authorRet' = Return(author, NoError)
       \/ /\ \E e \in StoreErrors, o \in FailedObjects :
                authorRet' = Return(o, e)
          /\ UNCHANGED store
    /\ authorPc' = "done"
    /\ UNCHANGED <<author, pullRequest, commits, authorBefore, resolverVars,
                   besideAuthor>>

\* the caller takes the result; the arguments of the call are gone
AuthorFinish ==
    /\ authorPc = "done"
    /\ authorPc' = "idle"
    /\ author' = Nil /\ pullRequest' = Nil /\ commits' = <<>>
    /\ authorRet' = NotReturned /\ authorBefore' = Nil /\ authorOps' = <<>>
    /\ UNCHANGED <<store, resolverVars, besideAuthor>>

InitAuthor ==
    /\ Idle
    /\ calls = 0
    /\ RestIdle
    /\ store \in {<<u>> : u \in AuthorUsers}

NextAuthor ==
    \/ UpdateUserFromPRAuthor
    \/ AuthorUpdate
    \/ AuthorFinish

SpecAuthor == InitAuthor /\ [][NextAuthor]_vars

\* the login of record u for the provider: the id of its first account
\* reference of the provider when that id is not empty, its raw login
\* otherwise
LoginForProvider(u) ==
    LET own == AccountsFor(u, GitProviderKey)
    IN  IF own # {} /\ u.Spec.Accounts[FirstOf(own)].ID # ""
        THEN u.Spec.Accounts[FirstOf(own)].ID
        ELSE u.Spec.Login

\* the positions of the commits whose author is not nil and has that login
CommitsOf(cs, login) ==
    {i \in DOMAIN cs : cs[i].Author # Nil /\ cs[i].Author.Login = login}

\* C12: UpdateUserFromPRAuthor returns the record it was given, every field
\* unchanged, and issues no Update, whenever the pull request is nil, or the
\* record is nil, or no commit has a non-nil author whose login is the
\* record's login for the provider.
C12_NoMatchNoUpdate ==
    (/\ authorPc # "idle"
     /\ \/ pullRequest = Nil
        \/ authorBefore = Nil
        \/ CommitsOf(commits, LoginForProvider(authorBefore)) = {}) =>
        /\ authorPc = "done"
        /\ authorRet = Return(authorBefore, NoError)
        /\ author = authorBefore
        /\ authorOps = <<>>

\* a call with a pull request, a record and two commits of other authors
C12_Witness ==
    /\ authorPc = "done"
    /\ pullRequest # Nil
    /\ authorBefore # Nil
    /\ Len(commits) = 2
    /\ \A i \in DOMAIN commits : commits[i].Author # Nil
    /\ CommitsOf(commits, LoginForProvider(authorBefore)) = {}
    /\ authorRet.user = authorBefore
    /\ authorOps = <<>>

\* the login of record u as the claim has it: the id of its account
\* reference of the provider, its raw login when it has none
LoginOrRawWhenNone(u) ==
    LET own == AccountsFor(u, GitProviderKey)
    IN  IF own # {} THEN u.Spec.Accounts[FirstOf(own)].ID ELSE u.Spec.Login

\* the call has returned, was given a pull request and a record, and a commit
\* has a non-nil author of that login
AuthorMatched(login) ==
    /\ authorPc = "done"
    /\ pullRequest # Nil
    /\ authorBefore # Nil
    /\ CommitsOf(commits, login) # {}

\* the email of the record is that of the first commit of that login, nothing
\* else of the record changed, and the one Update issued carried that record
EmailSetFrom(login) ==
    /\ author = [authorBefore EXCEPT !.Spec.Email =
                    commits[FirstOf(CommitsOf(commits, login))].Author.Email]
    /\ authorOps = <<author>>
    /\ authorRet.err = NoError =>
           /\ authorRet.user = author
           /\ \E i \in DOMAIN store : store[i] = author

\* C13 (as stated): with a non-nil pull request, the record's login is the
\* id of its account reference of the provider, or its raw login when it has
\* none; the email of the record is set to the author email of the first
\* commit whose author has that login, no other field changes, and exactly
\* one Update is issued.
C13_EmailFromFirstMatch ==
    AuthorMatched(LoginOrRawWhenNone(authorBefore)) =>
        EmailSetFrom(LoginOrRawWhenNone(authorBefore))

\* C13 (amended): the same, the record's login being the id of its first
\* account reference of the provider when that id is not empty, and its raw
\* login both when it has no such reference and when that id is empty.
C13_EmailFromFirstMatchOfLogin ==
    AuthorMatched(LoginForProvider(authorBefore)) =>
        EmailSetFrom(LoginForProvider(authorBefore))

\* the second of two commits of the record's account id set the email only
\* because the first has no author
C13_Witness ==
    /\ AuthorMatched(LoginForProvider(authorBefore))
    /\ GitUserLogin(authorBefore) = "a"
    /\ authorBefore.Spec.Login = "b"
    /\ Len(commits) = 2
    /\ commits[1].Author # Nil /\ commits[1].Author.Login = "a"
    /\ commits[2].Author # Nil /\ commits[2].Author.Login = "a"
    /\ commits[1].Author.Email # commits[2].Author.Email
    /\ author.Spec.Email = commits[1].Author.Email
    /\ authorRet = Return(author, NoError)

----------------------------------------------------------------------------
(* Two GitUserAsUser calls at once *)

\* the locals of the call that is scheduled now
Locals ==
    [pc |-> pc, user |-> user, users |-> users, found |-> found,
     gitUser |-> gitUser, lookup |-> lookup, ret |-> ret, ops |-> ops,
     failed |-> failed, searched |-> searched, storeBefore |-> storeBefore,
     merge1 |-> merge1, merge2 |-> merge2, merged |-> merged]

\* the scheduler takes the running call off and puts the other one on: the
\* calls share the store and nothing else
Switch ==
    /\ other' = Locals
    /\ pc' = other.pc
    /\ user' = other.user
    /\ users' = other.users
    /\ found' = other.found
    /\ gitUser' = other.gitUser
    /\ lookup' = other.lookup
    /\ ret' = other.ret
    /\ ops' = other.ops
    /\ failed' = other.failed
    /\ searched' = other.searched
    /\ storeBefore' = other.storeBefore
    /\ merge1' = other.merge1
    /\ merge2' = other.merge2
    /\ merged' = other.merged
    /\ UNCHANGED <<store, calls, besideRace>>

\* the second call is for the fragment of the first
ResolveSame ==
    GitUserAsUser(IF other.user = Nil THEN LoginUsers \ {Nil}
                  ELSE {other.user}, MaxCalls)

InitRace ==
    /\ Idle
    /\ calls = 0
    /\ RestIdle
    /\ store \in StoresUpTo(MaxRaceStored)

NextRace ==
    \/ ResolveSame
    \/ ListLabelled
    \/ ListAll
    \/ UpdateLabel
    \/ Lookup
    \/ UpdateAccount
    \/ CreateNew
    \/ Switch

SpecRace == InitRace /\ [][NextRace]_vars

\* the call with locals l has listed the namespace and asked the provider,
\* found no record in what it listed, by label, by account reference or by
\* the remote email, and has returned without a failed store call
FoundNothing(l) ==
    /\ l.pc = "done"
    /\ l.user # Nil
    /\ l.lookup # NotAsked
    /\ l.failed = NoFailure
    /\ l.user.Login # "" =>
           /\ Labelled(l.users, l.user.Login) = {}
           /\ Linked(l.users, l.user.Login) = {}
    /\ l.gitUser # Nil => WithEmail(l.users, l.gitUser.Email) = {}

\* C14: of two interleaved calls for the same fragment that both found no
\* record in stages 1 to 3, each issues its Create whatever the other has
\* done in the meantime: each returns a record of its own and both records
\* are in the store; no lock and no check prevents the second Create.
C14_BothCreate ==
    (FoundNothing(Locals) /\ FoundNothing(other)) =>
        /\ ops[Len(ops)] = "Create" /\ ret.err = NoError
        /\ other.ops[Len(other.ops)] = "Create" /\ other.ret.err = NoError
        /\ ret.user.Name # other.ret.user.Name
        /\ \E i, j \in DOMAIN store :
            /\ i # j
            /\ store[i] = ret.user
            /\ store[j] = other.ret.user

\* both calls listed the same store before either created; the store now
\* holds two records more, both with the account reference of the login
C14_Witness ==
    /\ FoundNothing(Locals)
    /\ FoundNothing(other)
    /\ user = other.user
    /\ user.Login = "a"
    /\ lookup = other.lookup
    /\ storeBefore = other.storeBefore
    /\ ops = <<"List", "List", "Create">>
    /\ other.ops = <<"List", "List", "Create">>
    /\ Len(store) = Len(storeBefore) + 2
    /\ Cardinality(Linked(store, "a")) = 2

----------------------------------------------------------------------------
(* WatchCertificatesIssuedReady *)

\* the namespace that is watched
WatchedNamespace == "jx"

\* a cert-manager Certificate, of which the name, the namespace and the
\* conditions are read
CertmngCertificate(name, conditions) ==
    [kind |-> "Certificate", Name |-> name, Namespace |-> WatchedNamespace,
     Conditions |-> conditions]

\* an object of another type, as an Error event carries
StatusObject == [kind |-> "Status"]

\* the condition the code looks for
ReadyTrue == [Type |-> "Ready", Status |-> "True"]

\* Certificate.HasCondition
HasCondition(cert, condition) == condition \in cert.Conditions

\* the value the package hands to the caller
Certificate(name, namespace) == [Name |-> name, Namespace |-> namespace]

\* a watch event
Event(type, object) == [Type |-> type, Object |-> object]

\* what a receive from a closed channel yields
ZeroEvent == Event("", Nil)

\* the certificates the events are about: two that are ready, one that is not
EventCertificates ==
    {CertmngCertificate("c1", {ReadyTrue}),
     CertmngCertificate("c2", {ReadyTrue}),
     CertmngCertificate("c1", {[Type |-> "Ready", Status |-> "False"]})}

\* the events of the watch: a certificate added, modified or deleted, an
\* error with its status, and an Added event whose object is no certificate
WatchEvents ==
    {Event(t, c) : t \in {"ADDED", "MODIFIED", "DELETED"},
                   c \in EventCertificates}
    \cup {Event("ERROR", StatusObject), Event("ADDED", StatusObject)}

\* the test of the event without the test of its type
IssuedReadyOfAnyType(e) ==
    /\ e.Object # Nil
    /\ e.Object.kind = "Certificate"
    /\ HasCondition(e.Object, ReadyTrue)

\* the three nested tests of the event: its type, the type of its object,
\* the Ready condition
IssuedReady(e) ==
    /\ e.Type \in {"ADDED", "MODIFIED"}
    /\ e.Object # Nil
    /\ e.Object.kind = "Certificate"
    /\ HasCondition(e.Object, ReadyTrue)

\* the call: Watch, and on success the start of the goroutine
WatchCertificatesIssuedReady ==
    /\ watchPc = "none"
    /\ \/ watchPc' = "failed"
       \/ watchPc' = "select"
    /\ UNCHANGED <<ctxDone, events, chanClosed, stopped, result, received,
                   consumed, receiving, besideWatch>>

\* case <-ctx.Done(): Stop and return
CtxDone ==
    /\ watchPc = "select"
    /\ ctxDone
    /\ stopped' = TRUE
    /\ watchPc' = "exited"
    /\ UNCHANGED <<ctxDone, events, chanClosed, result, received, consumed,
                   receiving, besideWatch>>

\* case e := <-watcher.ResultChan(): an event that waits is taken; a closed
\* and empty channel yields the zero event, which is not one that arrived
WatchEvent ==
    /\ watchPc = "select"
    /\ events # <<>> \/ chanClosed
    /\ LET e == IF events # <<>> THEN Head(events) ELSE ZeroEvent IN
        /\ events' = IF events # <<>> THEN Tail(events) ELSE events
        /\ consumed' = IF events # <<>> THEN Append(consumed, e) ELSE consumed
        /\ IF IssuedReady(e)
           THEN /\ result' = Certificate(e.Object.Name, e.Object.Namespace)
                /\ watchPc' = "send"
           ELSE /\ result' = result
                /\ watchPc' = "select"
    /\ UNCHANGED <<ctxDone, chanClosed, stopped, received, receiving,
                   besideWatch>>

\* results <- result: the send on the unbuffered channel completes when the
\* caller receives
SendResult ==
    /\ watchPc = "send"
    /\ receiving
    /\ received' = Append(received, result)
    /\ result' = Nil
    /\ watchPc' = "select"
    /\ UNCHANGED <<ctxDone, events, chanClosed, stopped, consumed, receiving,
                   besideWatch>>

\* the API server reports a change
Emit ==
    /\ watchPc \in {"select", "send"}
    /\ ~chanClosed
    /\ Len(consumed) + Len(events) < MaxEvents
    /\ \E e \in WatchEvents : events' = Append(events, e)
    /\ UNCHANGED <<watchPc, ctxDone, chanClosed, stopped, result, received,
                   consumed, receiving, besideWatch>>

\* the watch ends on the server side: the result channel is closed
CloseResultChan ==
    /\ watchPc \in {"select", "send"}
    /\ ~chanClosed
    /\ chanClosed' = TRUE
    /\ UNCHANGED <<watchPc, ctxDone, events, stopped, result, received,
                   consumed, receiving, besideWatch>>

\* the caller cancels the context
Cancel ==
    /\ watchPc \in {"select", "send"}
    /\ ~ctxDone
    /\ ctxDone' = TRUE
    /\ UNCHANGED <<watchPc, events, chanClosed, stopped, result, received,
                   consumed, receiving, besideWatch>>

\* the caller leaves its receive loop
StopReceiving ==
    /\ watchPc \in {"select", "send"}
    /\ receiving
    /\ receiving' = FALSE
    /\ UNCHANGED <<watchPc, ctxDone, events, chanClosed, stopped, result,
                   received, consumed, besideWatch>>

InitWatch ==
    /\ Idle
    /\ calls = 0
    /\ RestIdle
    /\ store = <<>>

NextWatch ==
    \/ WatchCertificatesIssuedReady
    \/ CtxDone
    \/ WatchEvent
    \/ SendResult
    \/ Emit
    \/ CloseResultChan
    \/ Cancel
    \/ StopReceiving

SpecWatch == InitWatch /\ [][NextWatch]_vars

\* the goroutine runs when it can, and a select with ctx.Done() ready takes
\* that case sooner or later; a caller that still receives does receive
SpecWatchFair ==
    /\ InitWatch
    /\ [][NextWatch]_vars
    /\ SF_vars(CtxDone)
    /\ WF_vars(WatchEvent)
    /\ WF_vars(SendResult)

\* C15: once the caller has cancelled the context, the goroutine calls Stop
\* on the watcher and terminates, whatever it is doing at the time, also a
\* send to a caller that no longer receives, and also once the watch channel
\* has been closed.
C15_CancelStopsWatcher ==
    (ctxDone /\ watchPc \in {"select", "send"}) ~>
        (stopped /\ watchPc = "exited")

RECURSIVE IssuedOf(_)
\* the Certificates of the Added and Modified events of es whose object is a
\* certificate with Ready=True, one per event, in the order of es
IssuedOf(es) ==
    IF es = <<>> THEN <<>>
    ELSE LET e == Head(es) IN
         IF /\ e.Type \in {"ADDED", "MODIFIED"}
            /\ e.Object.kind = "Certificate"
            /\ ReadyTrue \in e.Object.Conditions
         THEN <<[Name |-> e.Object.Name, Namespace |-> e.Object.Namespace]>>
                  \o IssuedOf(Tail(es))
         ELSE IssuedOf(Tail(es))

\* what the goroutine has handed over, and what it is handing over now
Delivered == IF watchPc = "send" THEN Append(received, result) ELSE received

\* C19: of the events the goroutine has taken from the watcher, the caller is
\* handed exactly one Certificate {name, namespace} for each Added or
\* Modified event whose object is a certificate with Ready=True, in the order
\* of arrival, and nothing for a Deleted or Error event, for a certificate
\* that is not ready, or for an object that is no certificate; while the
\* caller receives, only the last of them may still be in the send.
C19_OnePerReadyEvent ==
    /\ Delivered = IssuedOf(consumed)
    /\ (watchPc = "select" /\ ~ctxDone /\ receiving) =>
           received = IssuedOf(consumed)

\* two ready certificates came through in order, and a Deleted event of a
\* ready certificate between them did not
C19_Witness ==
    /\ ~ctxDone
    /\ receiving
    /\ Len(consumed) = 3
    /\ consumed[1].Type = "ADDED"
    /\ consumed[2].Type = "DELETED" /\ IssuedReadyOfAnyType(consumed[2])
    /\ consumed[3].Type = "MODIFIED"
    /\ received = <<Certificate("c2", WatchedNamespace),
                    Certificate("c1", WatchedNamespace)>>

----------------------------------------------------------------------------
(* WaitCertificateIssuedReady *)

\* the poll interval, time.Second, in seconds
PollInterval == 1

\* what a run of the condition function can meet: a failed Get, a
\* certificate without Ready=True, a certificate with it
Sights == {"get failed", "not ready", "ready"}

\* the pair (done, error) of a condition function
Condition(done, err) == [done |-> done, err |-> err]

\* the condition function with a failed Get handed on as its error
IssuedConditionStrict(sight) ==
    IF sight = "get failed" THEN Condition(FALSE, "get failed")
    ELSE IF sight = "not ready" THEN Condition(FALSE, NoError)
    ELSE Condition(TRUE, NoError)

\* the condition function: a failed Get is logged and counts as not ready
IssuedCondition(sight) ==
    IF sight = "get failed" THEN Condition(FALSE, NoError)
    ELSE IF sight = "not ready" THEN Condition(FALSE, NoError)
    ELSE Condition(TRUE, NoError)

\* errors.Wrapf of the error of the poll
WaitError(err) == "waiting for certificate to be ready: " \o err

\* the error of a poll that ran out of time
ErrWaitTimeout == "timed out waiting for the condition"

\* one run of the condition function and what the poll does with it: an
\* error or done end the poll, anything else leads to the next wait
RunCondition(last) ==
    \E sight \in Sights :
        LET c == IssuedCondition(sight) IN
        /\ observed' = Append(observed, [at |-> elapsed, saw |-> sight])
        /\ IF c.err # NoError
           THEN /\ waitRet' = WaitError(c.err)
                /\ waitPc' = "returned"
           ELSE IF c.done
           THEN /\ waitRet' = NoError
                /\ waitPc' = "returned"
           ELSE IF last
           THEN /\ waitRet' = WaitError(ErrWaitTimeout)
                /\ waitPc' = "returned"
           ELSE /\ waitRet' = waitRet
                /\ waitPc' = "wait"

\* the call, with a timeout of some seconds
WaitCertificateIssuedReady ==
    /\ waitPc = "none"
    /\ \E t \in 1..MaxTimeout : timeout' = t
    /\ waitPc' = "poll"
    /\ UNCHANGED <<elapsed, observed, waitRet, besideWait>>

\* a poll while there is time: the first at once, the others on the tick
Poll ==
    /\ waitPc = "poll"
    /\ RunCondition(FALSE)
    /\ UNCHANGED <<timeout, elapsed, besideWait>>

\* the ticker fires an interval later, before the timeout
Tick ==
    /\ waitPc = "wait"
    /\ elapsed + PollInterval < timeout
    /\ elapsed' = elapsed + PollInterval
    /\ waitPc' = "poll"
    /\ UNCHANGED <<timeout, observed, waitRet, besideWait>>

\* the timeout elapses: the poller ends the poll, with or without a last run
\* of the condition function
TimeOut ==
    /\ waitPc = "wait"
    /\ elapsed + PollInterval >= timeout
    /\ elapsed' = timeout
    /\ \/ /\ waitPc' = "lastPoll"
          /\ UNCHANGED waitRet
       \/ /\ waitPc' = "returned"
          /\ waitRet' = WaitError(ErrWaitTimeout)
    /\ UNCHANGED <<timeout, observed, besideWait>>

\* the run of the condition function at the timeout
LastPoll ==
    /\ waitPc = "lastPoll"
    /\ RunCondition(TRUE)
    /\ UNCHANGED <<timeout, elapsed, besideWait>>

InitWait ==
    /\ Idle
    /\ calls = 0
    /\ RestIdle
    /\ store = <<>>

NextWait ==
    \/ WaitCertificateIssuedReady
    \/ Poll
    \/ Tick
    \/ TimeOut
    \/ LastPoll

SpecWait == InitWait /\ [][NextWait]_vars

\* the polls that saw Ready=True
SawReady == {i \in DOMAIN observed : observed[i].saw = "ready"}

\* C16: WaitCertificateIssuedReady polls at once and then once per interval
\* until the timeout; it returns nil exactly when a poll saw Ready=True, and
\* that poll is its last; a failed Get never ends the wait; when no poll saw
\* Ready=True it returns an error, and only once the timeout has elapsed.
C16_ReadyOrTimeout ==
    /\ \A i \in DOMAIN observed :
          /\ observed[i].at <= timeout
          /\ observed[i].at < timeout => observed[i].at = (i - 1) * PollInterval
          /\ i < Len(observed) => observed[i].saw # "ready"
    /\ waitPc \in {"poll", "wait", "lastPoll"} => SawReady = {}
    /\ waitPc = "returned" =>
          /\ waitRet = NoError <=> SawReady # {}
          /\ waitRet # NoError => elapsed >= timeout

\* two failed Gets and a poll that saw the certificate not ready did not end
\* the wait; the fourth poll, three seconds in, saw it ready
C16_Witness ==
    /\ waitPc = "returned"
    /\ waitRet = NoError
    /\ timeout = 4
    /\ Len(observed) = 4
    /\ observed[1] = [at |-> 0, saw |-> "get failed"]
    /\ observed[2] = [at |-> 1, saw |-> "not ready"]
    /\ observed[3].saw = "get failed"
    /\ observed[4] = [at |-> 3, saw |-> "ready"]

----------------------------------------------------------------------------
(* CleanCertSecrets *)

\* certSecretPrefix, "tls-", as the sequence of its characters
certSecretPrefix == <<"t", "l", "s", "-">>

\* a test of the first three characters only
HasPrefixOfThree(s, prefix) ==
    /\ Len(s) >= 3
    /\ SubSeq(s, 1, 3) = SubSeq(prefix, 1, 3)

\* strings.HasPrefix
HasPrefix(s, prefix) ==
    /\ Len(s) >= Len(prefix)
    /\ SubSeq(s, 1, Len(prefix)) = prefix

\* the names a secret can have: "tls-a", "tls-", "tls", "tlsa", "a-tls-",
\* "TLS-a"
SecretNames ==
    {<<"t", "l", "s", "-", "a">>,
     <<"t", "l", "s", "-">>,
     <<"t", "l", "s">>,
     <<"t", "l", "s", "a">>,
     <<"a", "-", "t", "l", "s", "-">>,
     <<"T", "L", "S", "-", "a">>}

\* the orders in which a List can return the secrets named in S
RECURSIVE ListsOf(_)
ListsOf(S) ==
    IF S = {} THEN {<<>>}
    ELSE UNION {{<<n>> \o l : l \in ListsOf(S \ {n})} : n \in S}

\* the errors a call of the secrets client can fail with
SecretErrors == {"secrets unavailable"}

\* fmt.Errorf("failed to delete tls secret %s: %v", s.Name, err)
DeleteError(err) == "failed to delete tls secret: " \o err

\* the call, and its List
CleanCertSecrets ==
    /\ cleanPc = "none"
    /\ secretsBefore' = secrets
    /\ \/ \E e \in SecretErrors :
            /\ cleanFailed' = "list"
            /\ cleanRet' = e
            /\ cleanPc' = "returned"
            /\ UNCHANGED <<listed, position>>
       \/ \E l \in ListsOf(secrets) :
            /\ listed' = l
            /\ position' = 1
            /\ cleanPc' = "range"
            /\ UNCHANGED <<cleanFailed, cleanRet>>
    /\ UNCHANGED <<secrets, besideClean>>

\* the loop is at a secret with the prefix: Delete, and its error check
DeleteSecret ==
    /\ cleanPc = "range"
    /\ position <= Len(listed)
    /\ HasPrefix(listed[position], certSecretPrefix)
    /\ \/ \E e \in SecretErrors :
            /\ cleanFailed' = "delete"
            /\ cleanRet' = DeleteError(e)
            /\ cleanPc' = "returned"
            /\ UNCHANGED <<secrets, position>>
       \/ /\ secrets' = secrets \ {listed[position]}
          /\ position' = position + 1
          /\ UNCHANGED <<cleanFailed, cleanRet, cleanPc>>
    /\ UNCHANGED <<listed, secretsBefore, besideClean>>

\* the loop is at a secret without the prefix
SkipSecret ==
    /\ cleanPc = "range"
    /\ position <= Len(listed)
    /\ ~HasPrefix(listed[position], certSecretPrefix)
    /\ position' = position + 1
    /\ UNCHANGED <<secrets, listed, cleanPc, cleanRet, cleanFailed,
                   secretsBefore, besideClean>>

\* the end of the loop
CleanReturn ==
    /\ cleanPc = "range"
    /\ position > Len(listed)
    /\ cleanRet' = NoError
    /\ cleanPc' = "returned"
    /\ UNCHANGED <<secrets, listed, position, cleanFailed, secretsBefore,
                   besideClean>>

InitClean ==
    /\ Idle
    /\ calls = 0
    /\ OthersIdle
    /\ store = <<>>
    /\ secrets \in {S \in SUBSET SecretNames : Cardinality(S) <= MaxSecrets}

NextClean ==
    \/ CleanCertSecrets
    \/ DeleteSecret
    \/ SkipSecret
    \/ CleanReturn

SpecClean == InitClean /\ [][NextClean]_vars

\* the name starts with the four characters t, l, s and -
StartsWithTls(n) ==
    /\ Len(n) >= 4
    /\ n[1] = "t" /\ n[2] = "l" /\ n[3] = "s" /\ n[4] = "-"

\* the names among the first k of the list that start with "tls-"
TlsAmong(k) ==
    {listed[i] : i \in {j \in 1..k : StartsWithTls(listed[j])}}

\* C20: when CleanCertSecrets returns nil, the secrets it has deleted are
\* those whose name starts with "tls-", all of them and no other; when the
\* List fails it has deleted nothing and returns the error of the List; when
\* a Delete fails it returns an error at once: the secrets it deleted before
\* stay deleted, the one whose Delete failed and all later ones are untouched.
C20_OnlyTlsSecretsDeleted ==
    cleanPc = "returned" =>
        /\ cleanFailed = "none" =>
              /\ cleanRet = NoError
              /\ secrets = {n \in secretsBefore : ~StartsWithTls(n)}
        /\ cleanFailed = "list" =>
              /\ cleanRet \in SecretErrors
              /\ secrets = secretsBefore
        /\ cleanFailed = "delete" =>
              /\ cleanRet # NoError
              /\ StartsWithTls(listed[position])
              /\ secrets = secretsBefore \ TlsAmong(position - 1)
        /\ cleanRet = NoError => cleanFailed = "none"

\* a secret "tls-a" was deleted, a secret "tls" before it was kept, and the
\* Delete of "tls-" failed, third in the list
C20_Witness ==
    /\ cleanPc = "returned"
    /\ cleanFailed = "delete"
    /\ listed = << <<"t", "l", "s">>, <<"t", "l", "s", "-", "a">>,
                   <<"t", "l", "s", "-">> >>
    /\ secrets = {<<"t", "l", "s">>, <<"t", "l", "s", "-">>}

----------------------------------------------------------------------------
(* Further properties of GitUserAsUser *)

\* the running call has returned from a successful Update of stage 2 or 3
Relabelled ==
    /\ pc = "done"
    /\ user # Nil
    /\ failed = NoFailure
    /\ ops # <<>>
    /\ ops[Len(ops)] = "Update"

\* C18: whenever GitUserAsUser writes the label providerKey=L onto a record,
\* in stage 2 or in stage 3, the record as persisted holds the account
\* reference {providerKey, L}; L is never empty, and in stage 3 L is the id
\* of the account reference appended in the same Update.
C18_LabelAgreesWithAccount ==
    Relabelled =>
        /\ \E i \in DOMAIN store : store[i] = ret.user
        /\ GitProviderKey \in DOMAIN ret.user.Labels
        /\ LET L == ret.user.Labels[GitProviderKey] IN
            /\ L # ""
            /\ \E j \in DOMAIN ret.user.Spec.Accounts :
                  ret.user.Spec.Accounts[j] = AccountReference(GitProviderKey, L)
            /\ lookup # NotAsked =>
                  ret.user.Spec.Accounts[Len(ret.user.Spec.Accounts)] =
                      AccountReference(GitProviderKey, L)

\* the caller takes the result of the first call and is about to call again:
\* what the first call did is kept, its locals are gone
Again ==
    /\ pc = "done"
    /\ other = IdleLocals
    /\ other' = Locals
    /\ pc' = "idle"
    /\ user' = Nil /\ users' = <<>> /\ found' = Nil /\ gitUser' = Nil
    /\ lookup' = NotAsked /\ ret' = NotReturned /\ ops' = <<>>
    /\ failed' = NoFailure /\ searched' = {} /\ storeBefore' = <<>>
    /\ merge1' = Nil /\ merge2' = Nil /\ merged' = NotMerged
    /\ UNCHANGED <<store, calls, besideRace>>

\* the provider answers the second call as it answered the first
LookupSame ==
    AskProvider(IF other.lookup = NotAsked THEN LoginAnswers
                ELSE {other.lookup})

InitAgain ==
    /\ Idle
    /\ calls = 0
    /\ RestIdle
    /\ store \in StoresUpTo(MaxStored)

NextAgain ==
    \/ ResolveSame
    \/ ListLabelled
    \/ ListAll
    \/ UpdateLabel
    \/ LookupSame
    \/ UpdateAccount
    \/ CreateNew
    \/ Again

SpecAgain == InitAgain /\ [][NextAgain]_vars

\* the call with locals l was for a non-empty login and succeeded through
\* stage 2, 3 or 4: it returned the record of its one Update or Create
SucceededByWrite(l) ==
    /\ l.pc = "done"
    /\ l.user # Nil
    /\ l.user.Login # ""
    /\ l.failed = NoFailure
    /\ l.ret.err = NoError
    /\ l.ops # <<>>
    /\ l.ops[Len(l.ops)] \in {"Update", "Create"}

\* C17: when a call of GitUserAsUser for a fragment with a login has
\* succeeded through stage 2, 3 or 4, a second call after it, for the same
\* fragment and with the same answer of the provider, returns the same
\* record, issues no Create and appends no account reference, also when the
\* login of the remote user differs from the caller's (the store calls of
\* the second call succeeding).
C17_SecondCallConverges ==
    (SucceededByWrite(other) /\ pc = "done" /\ failed = NoFailure) =>
        /\ ret.err = NoError
        /\ ret.user.Name = other.ret.user.Name
        /\ \A i \in DOMAIN ops : ops[i] # "Create"
        /\ Len(store) = Len(storeBefore)
        /\ \A i \in DOMAIN store :
              store[i].Spec.Accounts = storeBefore[i].Spec.Accounts

====
